---- MODULE Spec2Model ----
(***************************************************************************)
(* Provider adapters of ddns-updater: the two-step DigitalOcean adapter    *)
(* (internal/settings/providers/digitalocean/digitalocean.go) and the      *)
(* simple Namecheap adapter (src/unnamed/part_000).                        *)
(*                                                                         *)
(* New builds an adapter from a configuration blob; Update performs one    *)
(* (Namecheap) or two (DigitalOcean) HTTP exchanges through the injected   *)
(* client.  An Update is split at its blocking points, the calls of        *)
(* client.Do: UpdateStart runs the code up to the first client.Do,         *)
(* DoRespond / DoAbort run the code from the return of a client.Do up to   *)
(* the next client.Do or to the return of Update.                          *)
(***************************************************************************)
EXTENDS Naturals, Sequences, FiniteSets

(***************************************************************************)
(* Bounds of the model.                                                    *)
(***************************************************************************)
MaxAdapters == 1    \* adapter slots (results of New)
MaxCalls == 2       \* Update invocations tracked at a time
MaxAddr == 2        \* distinct IPv4 addresses, and distinct IPv6 addresses
MaxID == 2          \* record identifiers the vendor hands out: 0..MaxID
MaxRecords == 2     \* length of a lookup's record list: 0..MaxRecords

AdapterIds == 1..MaxAdapters
CallIds == 1..MaxCalls
Addrs == 1..MaxAddr

(***************************************************************************)
(* net.IP.  A value is nil, 4 bytes (b4), 16 bytes holding an IPv4-mapped  *)
(* address (b16m) or 16 bytes holding a proper IPv6 address (b16).         *)
(* addr numbers the address within its family.                             *)
(***************************************************************************)
NilIP == [form |-> "nil", addr |-> 0]

IPs == {NilIP} \cup [form : {"b4", "b16m", "b16"}, addr : Addrs]

IPLen(ip) ==
    CASE ip.form = "nil" -> 0
      [] ip.form = "b4" -> 4
      [] OTHER -> 16

\* ip.To4(): the 4-byte form of an IPv4 address, nil for anything else
To4(ip) ==
    IF ip.form \in {"b4", "b16m"} THEN [form |-> "b4", addr |-> ip.addr] ELSE NilIP

\* ip.Equal(x) compared bytewise whatever the lengths (a plausible slip)
IPEqualBytes(x, y) == x = y

\* ip.Equal(x): same bytes, or a 4-byte address against its 16-byte mapped form
IPEqual(x, y) ==
    IF IPLen(x) = IPLen(y) THEN x = y
    ELSE IF IPLen(x) = 4 /\ IPLen(y) = 16 THEN y.form = "b16m" /\ y.addr = x.addr
    ELSE IF IPLen(x) = 16 /\ IPLen(y) = 4 THEN x.form = "b16m" /\ x.addr = y.addr
    ELSE FALSE

(***************************************************************************)
(* Texts of addresses: dotted quad, "::ffff:a.b.c.d" (mapped), IPv6 text,  *)
(* "<nil>" (what String gives for a nil IP) and text that is no address.   *)
(***************************************************************************)
NilText == [kind |-> "<nil>", addr |-> 0]
GarbageText == [kind |-> "garbage", addr |-> 0]
NoText == [kind |-> "", addr |-> 0]

Texts == {NilText, GarbageText, NoText} \cup [kind : {"dotted", "mapped", "v6"}, addr : Addrs]

\* ip.String()
IPString(ip) ==
    CASE ip.form = "nil" -> NilText
      [] ip.form \in {"b4", "b16m"} -> [kind |-> "dotted", addr |-> ip.addr]
      [] OTHER -> [kind |-> "v6", addr |-> ip.addr]

\* net.ParseIP(s): always the 16-byte form, nil when s is no address
ParseIP(s) ==
    CASE s.kind \in {"dotted", "mapped"} -> [form |-> "b16m", addr |-> s.addr]
      [] s.kind = "v6" -> [form |-> "b16", addr |-> s.addr]
      [] OTHER -> NilIP

(***************************************************************************)
(* Errors.  is: the sentinel errors.Is finds in the chain ("" for an error *)
(* built without %w, "client" for an error of client.Do or of the request  *)
(* construction); status: the HTTP status an ErrBadHTTPStatus carries;     *)
(* detail: the text after the sentinel; prefix: text put in front by a     *)
(* caller.                                                                 *)
(***************************************************************************)
NilErr == [is |-> "nil", status |-> 0, detail |-> "", prefix |-> ""]

Err(sentinel, detail) == [is |-> sentinel, status |-> 0, detail |-> detail, prefix |-> ""]

ErrStatus(code) == [is |-> "ErrBadHTTPStatus", status |-> code, detail |-> "body", prefix |-> ""]

(***************************************************************************)
(* Configuration blobs (json.RawMessage) and record targets given to New.  *)
(***************************************************************************)
IP4 == "ipv4"
IP6 == "ipv6"

GoodPassword == "Aa1-aaaaaaaaaaaaaaaa"

Blob(wellFormed, keys, token, password, providerIP) ==
    [wellFormed |-> wellFormed, keys |-> keys, token |-> token,
     password |-> password, provider_ip |-> providerIP]

Blobs ==
    { Blob(FALSE, {}, "", "", FALSE),
      Blob(TRUE, {}, "", "", FALSE),
      Blob(TRUE, {"token"}, "", "", FALSE),
      Blob(TRUE, {"token"}, "tok123", "", FALSE),
      Blob(TRUE, {"password"}, "", "short", FALSE),
      Blob(TRUE, {"password"}, "", GoodPassword, FALSE),
      Blob(TRUE, {"password", "provider_ip"}, "", GoodPassword, TRUE) }

Targets ==
    { [domain |-> "example.com", host |-> "www", ipVersion |-> IP4],
      [domain |-> "example.org", host |-> "@", ipVersion |-> IP6] }

\* regex.Matcher.NamecheapPassword: the vendor's password shape
NamecheapPassword(s) == s = GoodPassword

\* utils.BuildDomainName(host, domain)
BuildDomainName(host, domain) ==
    IF host = "@" THEN domain
    ELSE IF host = "*" THEN "any." \o domain
    ELSE host \o "." \o domain

(***************************************************************************)
(* Adapters.  One record shape for both structs; kind tells which struct.  *)
(***************************************************************************)
NoAdapter ==
    [kind |-> "none", domain |-> "", host |-> "", ipVersion |-> "",
     token |-> "", password |-> "", useProviderIP |-> FALSE]

\* digitalOcean.isValid accepting every token (a plausible slip)
DOIsValidAlways(d) == NilErr

\* digitalOcean.isValid
DOIsValid(d) ==
    IF d.token = "" THEN Err("ErrEmptyToken", "") ELSE NilErr

\* New (digitalocean) with domain and host swapped (a plausible slip)
DONewSwapped(data, domain, host, ipVersion) ==
    IF ~data.wellFormed THEN [adapter |-> NoAdapter, err |-> Err("json", "unmarshal")]
    ELSE LET d == [kind |-> "digitalocean", domain |-> host, host |-> domain,
                   ipVersion |-> ipVersion,
                   token |-> IF "token" \in data.keys THEN data.token ELSE "",
                   password |-> "", useProviderIP |-> FALSE]
         IN IF DOIsValid(d).is # "nil"
            THEN [adapter |-> NoAdapter, err |-> DOIsValid(d)]
            ELSE [adapter |-> d, err |-> NilErr]

\* New (digitalocean): (adapter, err)
DONew(data, domain, host, ipVersion) ==
    IF ~data.wellFormed THEN [adapter |-> NoAdapter, err |-> Err("json", "unmarshal")]
    ELSE LET d == [kind |-> "digitalocean", domain |-> domain, host |-> host,
                   ipVersion |-> ipVersion,
                   token |-> IF "token" \in data.keys THEN data.token ELSE "",
                   password |-> "", useProviderIP |-> FALSE]
         IN IF DOIsValid(d).is # "nil"
            THEN [adapter |-> NoAdapter, err |-> DOIsValid(d)]
            ELSE [adapter |-> d, err |-> NilErr]

\* namecheap.isValid
NCIsValid(n) ==
    IF ~NamecheapPassword(n.password) THEN Err("ErrMalformedPassword", "") ELSE NilErr

\* New (namecheap) parsing the blob before it looks at the IP version (a
\* plausible slip)
NCNewParseFirst(data, domain, host, ipVersion) ==
    IF ~data.wellFormed THEN [adapter |-> NoAdapter, err |-> Err("json", "unmarshal")]
    ELSE IF ipVersion = IP6 THEN [adapter |-> NoAdapter, err |-> Err("ErrIPv6NotSupported", "")]
    ELSE LET n == [kind |-> "namecheap", domain |-> domain, host |-> host,
                   ipVersion |-> ipVersion, token |-> "",
                   password |-> IF "password" \in data.keys THEN data.password ELSE "",
                   useProviderIP |-> IF "provider_ip" \in data.keys
                                     THEN data.provider_ip ELSE FALSE]
         IN IF NCIsValid(n).is # "nil"
            THEN [adapter |-> NoAdapter, err |-> NCIsValid(n)]
            ELSE [adapter |-> n, err |-> NilErr]

\* New (namecheap): (adapter, err)
NCNew(data, domain, host, ipVersion) ==
    IF ipVersion = IP6 THEN [adapter |-> NoAdapter, err |-> Err("ErrIPv6NotSupported", "")]
    ELSE IF ~data.wellFormed THEN [adapter |-> NoAdapter, err |-> Err("json", "unmarshal")]
    ELSE LET n == [kind |-> "namecheap", domain |-> domain, host |-> host,
                   ipVersion |-> ipVersion, token |-> "",
                   password |-> IF "password" \in data.keys THEN data.password ELSE "",
                   useProviderIP |-> IF "provider_ip" \in data.keys
                                     THEN data.provider_ip ELSE FALSE]
         IN IF NCIsValid(n).is # "nil"
            THEN [adapter |-> NoAdapter, err |-> NCIsValid(n)]
            ELSE [adapter |-> n, err |-> NilErr]

\* the accessors
Domain(x) == x.domain
Host(x) == x.host
IPVersion(x) == x.ipVersion


(***************************************************************************)
(* HTTP.  A request is what the adapter hands to client.Do; ctx tells      *)
(* which context it was built with.  An outcome is what client.Do returns: *)
(* an error (doErr) or a response with a status and a body.                *)
(***************************************************************************)
StatusOK == 200

StatusCodes == {StatusOK, 201, 500}

A == "A"
AAAA == "AAAA"

JunkBody == [ok |-> FALSE]

NoResp == [doErr |-> "pending", status |-> 0, body |-> JunkBody]

ClientError(cause) == [doErr |-> cause, status |-> 0, body |-> JunkBody]

Response(status, body) == [doErr |-> "none", status |-> status, body |-> body]

RecordLists == UNION { [1..n -> 0..MaxID] : n \in 0..MaxRecords }

VendorMessages == {"", "Domain name not found"}

LookupBodies == {JunkBody} \cup { [ok |-> TRUE, records |-> s] : s \in RecordLists }

PutBodies == {JunkBody} \cup { [ok |-> TRUE, data |-> t] : t \in Texts }

XMLBodies == {JunkBody} \cup { [ok |-> TRUE, error |-> m, ip |-> t] : m \in VendorMessages, t \in Texts }

\* bodies a vendor sends with a status other than 200: an error page, and the
\* body of a success
ErrorPageBodies ==
    { JunkBody, [ok |-> TRUE, records |-> <<1>>],
      [ok |-> TRUE, data |-> [kind |-> "dotted", addr |-> 1]],
      [ok |-> TRUE, error |-> "", ip |-> [kind |-> "dotted", addr |-> 1]] }

Outcomes(bodies) ==
    {ClientError("network")}
        \cup { Response(StatusOK, b) : b \in bodies }
        \cup { Response(s, b) : s \in StatusCodes \ {StatusOK}, b \in bodies \cap ErrorPageBodies }

\* what json decodes into result.DomainRecords: a missing key leaves the list empty
DecodeRecords(body) == IF "records" \in DOMAIN body THEN body.records ELSE <<>>

\* what json decodes into responseData.DomainRecord.Data
DecodeData(body) == IF "data" \in DOMAIN body THEN body.data ELSE NoText

\* what xml decodes into parsedXML.Errors.Error and parsedXML.IP
DecodeXMLError(body) == IF "error" \in DOMAIN body THEN body.error ELSE ""
DecodeXMLIP(body) == IF "ip" \in DOMAIN body THEN body.ip ELSE NoText

(***************************************************************************)
(* digitalOcean.getRecordID and digitalOcean.Update                        *)
(***************************************************************************)
\* the record type chosen from the length of the IP (a plausible slip)
RecordTypeByLength(ip) == IF IPLen(ip) = 4 THEN A ELSE AAAA

\* the record type chosen at the top of Update
RecordType(ip) == IF To4(ip) = NilIP THEN AAAA ELSE A

\* the lookup request getRecordID builds
DOLookupRequest(d, recordType) ==
    [kind |-> "lookup", method |-> "GET", domain |-> d.domain,
     name |-> BuildDomainName(d.host, d.domain), type |-> recordType,
     bearer |-> d.token, ctx |-> "caller"]

\* getRecordID going on after an error of client.Do (a plausible slip)
GetRecordIDResultIgnoringError(r) ==
    IF r.doErr # "none" THEN [recordID |-> 1, err |-> NilErr]
    ELSE IF r.status # StatusOK THEN [recordID |-> 0, err |-> ErrStatus(r.status)]
    ELSE IF ~r.body.ok THEN [recordID |-> 0, err |-> Err("ErrUnmarshalResponse", "decode")]
    ELSE LET recs == DecodeRecords(r.body)
         IN IF Len(recs) = 0 THEN [recordID |-> 0, err |-> Err("ErrNotFound", "")]
            ELSE IF recs[1] = 0 THEN [recordID |-> 0, err |-> Err("ErrDomainIDNotFound", "")]
            ELSE [recordID |-> recs[1], err |-> NilErr]

\* getRecordID taking an empty list for the record 1 (a plausible slip)
GetRecordIDResultNoEmptyCheck(r) ==
    IF r.doErr # "none" THEN [recordID |-> 0, err |-> Err("client", r.doErr)]
    ELSE IF r.status # StatusOK THEN [recordID |-> 0, err |-> ErrStatus(r.status)]
    ELSE IF ~r.body.ok THEN [recordID |-> 0, err |-> Err("ErrUnmarshalResponse", "decode")]
    ELSE LET recs == DecodeRecords(r.body)
         IN IF Len(recs) = 0 THEN [recordID |-> 1, err |-> NilErr]
            ELSE IF recs[1] = 0 THEN [recordID |-> 0, err |-> Err("ErrDomainIDNotFound", "")]
            ELSE [recordID |-> recs[1], err |-> NilErr]

\* getRecordID reporting a zero identifier as an absent record (a plausible slip)
GetRecordIDResultZeroAsNotFound(r) ==
    IF r.doErr # "none" THEN [recordID |-> 0, err |-> Err("client", r.doErr)]
    ELSE IF r.status # StatusOK THEN [recordID |-> 0, err |-> ErrStatus(r.status)]
    ELSE IF ~r.body.ok THEN [recordID |-> 0, err |-> Err("ErrUnmarshalResponse", "decode")]
    ELSE LET recs == DecodeRecords(r.body)
         IN IF Len(recs) = 0 \/ recs[1] = 0
            THEN [recordID |-> 0, err |-> Err("ErrNotFound", "")]
            ELSE [recordID |-> recs[1], err |-> NilErr]

\* getRecordID taking the last record of the list (a plausible slip)
GetRecordIDResultLast(r) ==
    IF r.doErr # "none" THEN [recordID |-> 0, err |-> Err("client", r.doErr)]
    ELSE IF r.status # StatusOK THEN [recordID |-> 0, err |-> ErrStatus(r.status)]
    ELSE IF ~r.body.ok THEN [recordID |-> 0, err |-> Err("ErrUnmarshalResponse", "decode")]
    ELSE LET recs == DecodeRecords(r.body)
         IN IF Len(recs) = 0 THEN [recordID |-> 0, err |-> Err("ErrNotFound", "")]
            ELSE IF recs[Len(recs)] = 0
            THEN [recordID |-> 0, err |-> Err("ErrDomainIDNotFound", "")]
            ELSE [recordID |-> recs[Len(recs)], err |-> NilErr]

\* getRecordID from the return of client.Do on: (recordID, err)
GetRecordIDResult(r) ==
    IF r.doErr # "none" THEN [recordID |-> 0, err |-> Err("client", r.doErr)]
    ELSE IF r.status # StatusOK THEN [recordID |-> 0, err |-> ErrStatus(r.status)]
    ELSE IF ~r.body.ok THEN [recordID |-> 0, err |-> Err("ErrUnmarshalResponse", "decode")]
    ELSE LET recs == DecodeRecords(r.body)
         IN IF Len(recs) = 0 THEN [recordID |-> 0, err |-> Err("ErrNotFound", "")]
            ELSE IF recs[1] = 0 THEN [recordID |-> 0, err |-> Err("ErrDomainIDNotFound", "")]
            ELSE [recordID |-> recs[1], err |-> NilErr]

\* fmt.Errorf("%s: %w", errors.ErrGetRecordID, err): the text of ErrGetRecordID
\* in front, err alone in the chain
WrapGetRecordID(err) == [err EXCEPT !.prefix = "ErrGetRecordID"]

\* the mutation request built with a context of its own (a plausible slip)
DOPutRequestBackground(d, recordType, recordID, ip) ==
    [kind |-> "mutation", method |-> "PUT", domain |-> d.domain, id |-> recordID,
     body |-> [type |-> recordType, name |-> d.host, data |-> IPString(ip)],
     bearer |-> d.token, ctx |-> "background"]

\* the mutation request Update builds
DOPutRequest(d, recordType, recordID, ip) ==
    [kind |-> "mutation", method |-> "PUT", domain |-> d.domain, id |-> recordID,
     body |-> [type |-> recordType, name |-> d.host, data |-> IPString(ip)],
     bearer |-> d.token, ctx |-> "caller"]

\* Update returning whatever address the vendor reports (a plausible slip)
DOUpdateResultUnverified(ip, r) ==
    IF r.doErr # "none" THEN [newIP |-> NilIP, err |-> Err("client", r.doErr)]
    ELSE IF r.status # StatusOK THEN [newIP |-> NilIP, err |-> ErrStatus(r.status)]
    ELSE IF ~r.body.ok THEN [newIP |-> NilIP, err |-> Err("ErrUnmarshalResponse", "decode")]
    ELSE LET newIP == ParseIP(DecodeData(r.body))
         IN IF newIP = NilIP THEN [newIP |-> NilIP, err |-> Err("", "malformed")]
            ELSE [newIP |-> newIP, err |-> NilErr]

\* Update returning the parsed address beside the mismatch error (a plausible slip)
DOUpdateResultPartial(ip, r) ==
    IF r.doErr # "none" THEN [newIP |-> NilIP, err |-> Err("client", r.doErr)]
    ELSE IF r.status # StatusOK THEN [newIP |-> NilIP, err |-> ErrStatus(r.status)]
    ELSE IF ~r.body.ok THEN [newIP |-> NilIP, err |-> Err("ErrUnmarshalResponse", "decode")]
    ELSE LET newIP == ParseIP(DecodeData(r.body))
         IN IF newIP = NilIP THEN [newIP |-> NilIP, err |-> Err("", "malformed")]
            ELSE IF ~IPEqual(newIP, ip) THEN [newIP |-> newIP, err |-> Err("", "mismatch")]
            ELSE [newIP |-> newIP, err |-> NilErr]

\* Update decoding the body whatever the status (a plausible slip)
DOUpdateResultNoStatusCheck(ip, r) ==
    IF r.doErr # "none" THEN [newIP |-> NilIP, err |-> Err("client", r.doErr)]
    ELSE IF ~r.body.ok THEN [newIP |-> NilIP, err |-> Err("ErrUnmarshalResponse", "decode")]
    ELSE LET newIP == ParseIP(DecodeData(r.body))
         IN IF newIP = NilIP THEN [newIP |-> NilIP, err |-> Err("", "malformed")]
            ELSE IF ~IPEqual(newIP, ip) THEN [newIP |-> NilIP, err |-> Err("", "mismatch")]
            ELSE [newIP |-> newIP, err |-> NilErr]

\* Update from the return of the second client.Do on: (newIP, err).  The two
\* last errors are built without %w: no sentinel is in their chain.
DOUpdateResult(ip, r) ==
    IF r.doErr # "none" THEN [newIP |-> NilIP, err |-> Err("client", r.doErr)]
    ELSE IF r.status # StatusOK THEN [newIP |-> NilIP, err |-> ErrStatus(r.status)]
    ELSE IF ~r.body.ok THEN [newIP |-> NilIP, err |-> Err("ErrUnmarshalResponse", "decode")]
    ELSE LET newIP == ParseIP(DecodeData(r.body))
         IN IF newIP = NilIP THEN [newIP |-> NilIP, err |-> Err("", "malformed")]
            ELSE IF ~IPEqual(newIP, ip) THEN [newIP |-> NilIP, err |-> Err("", "mismatch")]
            ELSE [newIP |-> newIP, err |-> NilErr]

(***************************************************************************)
(* namecheap.Update                                                        *)
(***************************************************************************)
\* the request built with the ip parameter whatever useProviderIP (a plausible slip)
NCRequestAlwaysIP(n, ip) ==
    [kind |-> "update", method |-> "GET",
     query |-> [host |-> n.host, domain |-> n.domain, password |-> n.password,
                hasIP |-> TRUE, ip |-> IPString(ip)],
     ctx |-> "caller"]

\* the request Update builds: the ip parameter is set unless useProviderIP
NCRequest(n, ip) ==
    [kind |-> "update", method |-> "GET",
     query |-> [host |-> n.host, domain |-> n.domain, password |-> n.password,
                hasIP |-> ~n.useProviderIP,
                ip |-> IF ~n.useProviderIP THEN IPString(ip) ELSE NoText],
     ctx |-> "caller"]

\* Update looking at the vendor's error field after the IP (a plausible slip)
NCUpdateResultErrorLast(ip, r) ==
    IF r.doErr # "none" THEN [newIP |-> NilIP, err |-> Err("client", r.doErr)]
    ELSE IF r.status # StatusOK THEN [newIP |-> NilIP, err |-> ErrStatus(r.status)]
    ELSE IF ~r.body.ok THEN [newIP |-> NilIP, err |-> Err("ErrUnmarshalResponse", "decode")]
    ELSE LET newIP == ParseIP(DecodeXMLIP(r.body))
         IN IF newIP = NilIP
            THEN [newIP |-> NilIP, err |-> Err("ErrIPReceivedMalformed", "ip")]
            ELSE IF ip # NilIP /\ ~IPEqual(ip, newIP)
            THEN [newIP |-> NilIP, err |-> Err("ErrIPReceivedMismatch", "ip")]
            ELSE IF DecodeXMLError(r.body) # ""
            THEN [newIP |-> NilIP,
                  err |-> Err("ErrUnsuccessfulResponse", DecodeXMLError(r.body))]
            ELSE [newIP |-> newIP, err |-> NilErr]

\* Update accepting every 2xx status (a plausible slip)
NCUpdateResultAny2xx(ip, r) ==
    IF r.doErr # "none" THEN [newIP |-> NilIP, err |-> Err("client", r.doErr)]
    ELSE IF r.status < 200 \/ r.status > 299
         THEN [newIP |-> NilIP, err |-> ErrStatus(r.status)]
    ELSE IF ~r.body.ok THEN [newIP |-> NilIP, err |-> Err("ErrUnmarshalResponse", "decode")]
    ELSE IF DecodeXMLError(r.body) # ""
         THEN [newIP |-> NilIP, err |-> Err("ErrUnsuccessfulResponse", DecodeXMLError(r.body))]
    ELSE LET newIP == ParseIP(DecodeXMLIP(r.body))
         IN IF newIP = NilIP
            THEN [newIP |-> NilIP, err |-> Err("ErrIPReceivedMalformed", "ip")]
            ELSE IF ip # NilIP /\ ~IPEqual(ip, newIP)
            THEN [newIP |-> NilIP, err |-> Err("ErrIPReceivedMismatch", "ip")]
            ELSE [newIP |-> newIP, err |-> NilErr]

\* Update from the return of client.Do on: (newIP, err)
NCUpdateResult(ip, r) ==
    IF r.doErr # "none" THEN [newIP |-> NilIP, err |-> Err("client", r.doErr)]
    ELSE IF r.status # StatusOK THEN [newIP |-> NilIP, err |-> ErrStatus(r.status)]
    ELSE IF ~r.body.ok THEN [newIP |-> NilIP, err |-> Err("ErrUnmarshalResponse", "decode")]
    ELSE IF DecodeXMLError(r.body) # ""
         THEN [newIP |-> NilIP, err |-> Err("ErrUnsuccessfulResponse", DecodeXMLError(r.body))]
    ELSE LET newIP == ParseIP(DecodeXMLIP(r.body))
         IN IF newIP = NilIP
            THEN [newIP |-> NilIP, err |-> Err("ErrIPReceivedMalformed", "ip")]
            ELSE IF ip # NilIP /\ ~IPEqual(ip, newIP)
            THEN [newIP |-> NilIP, err |-> Err("ErrIPReceivedMismatch", "ip")]
            ELSE [newIP |-> newIP, err |-> NilErr]


(***************************************************************************)
(* State.                                                                  *)
(*   adapters: the adapter each slot holds (NoAdapter: none was built)     *)
(*   newLog:   the arguments and the error of the New that filled, or      *)
(*             failed to fill, each slot                                   *)
(*   calls:    the Update invocations: position (pc), arguments (adapter,  *)
(*             ip, ctx), local variables (recordType, recordID), the       *)
(*             requests handed to client.Do so far (sent), what the lookup *)
(*             exchange returned reduced to the fields getRecordID reads   *)
(*             (lookupSeen), what the last client.Do returned (lastResp),  *)
(*             the stage at which the caller cancelled ctx (cancelledAt),  *)
(*             and the result (newIP, err)                                 *)
(***************************************************************************)
VARIABLES adapters, newLog, calls

vars == <<adapters, newLog, calls>>

NoNew ==
    [called |-> FALSE, kind |-> "", data |-> Blob(FALSE, {}, "", "", FALSE),
     domain |-> "", host |-> "", ipVersion |-> "", err |-> NilErr]

NoLookup == [doErr |-> "pending", status |-> 0, ok |-> FALSE, n |-> 0, first |-> 0]

Seen(r) ==
    [doErr |-> r.doErr, status |-> r.status, ok |-> r.body.ok,
     n |-> Len(DecodeRecords(r.body)),
     first |-> IF Len(DecodeRecords(r.body)) > 0 THEN DecodeRecords(r.body)[1] ELSE 0]

IdleCall ==
    [pc |-> "idle", adapter |-> 0, ip |-> NilIP, ctx |-> "live", cancelledAt |-> "",
     recordType |-> "", recordID |-> 0, sent |-> <<>>, lookupSeen |-> NoLookup,
     lastResp |-> NoResp, newIP |-> NilIP, err |-> NilErr]

Init ==
    /\ adapters = [a \in AdapterIds |-> NoAdapter]
    /\ newLog = [a \in AdapterIds |-> NoNew]
    /\ calls = [c \in CallIds |-> IdleCall]

InFlight(c) == calls[c].pc \in {"lookup", "put", "get"}

\* the exchange in flight was built with the caller's context, which is cancelled
Aborted(c) ==
    /\ InFlight(c)
    /\ calls[c].sent[Len(calls[c].sent)].ctx = "caller"
    /\ calls[c].ctx = "cancelled"

(***************************************************************************)
(* New: the result goes to slot a.  No request is made.                    *)
(***************************************************************************)
New(a, kind, data, t) ==
    /\ ~newLog[a].called
    /\ LET res == IF kind = "digitalocean"
                  THEN DONew(data, t.domain, t.host, t.ipVersion)
                  ELSE NCNew(data, t.domain, t.host, t.ipVersion)
       IN /\ adapters' = [adapters EXCEPT ![a] = res.adapter]
          /\ newLog' = [newLog EXCEPT ![a] =
                 [called |-> TRUE, kind |-> kind, data |-> data, domain |-> t.domain,
                  host |-> t.host, ipVersion |-> t.ipVersion, err |-> res.err]]
    /\ UNCHANGED calls

(***************************************************************************)
(* Update up to its first client.Do.  http.NewRequestWithContext fails on  *)
(* a nil context: getRecordID, and so Update, returns the error.           *)
(***************************************************************************)
UpdateStart(c, a, ip, ctx) ==
    /\ calls[c].pc = "idle"
    /\ adapters[a].kind # "none"
    /\ LET x == adapters[a]
           base == [IdleCall EXCEPT !.adapter = a, !.ip = ip, !.ctx = ctx,
                       !.cancelledAt = IF ctx = "cancelled" THEN "start" ELSE ""]
       IN calls' = [calls EXCEPT ![c] =
            IF x.kind = "digitalocean"
            THEN IF ctx = "nil"
                 THEN [base EXCEPT !.pc = "done", !.recordType = RecordType(ip),
                          !.err = WrapGetRecordID(Err("client", "nil Context"))]
                 ELSE [base EXCEPT !.pc = "lookup", !.recordType = RecordType(ip),
                          !.sent = <<DOLookupRequest(x, RecordType(ip))>>]
            ELSE IF ctx = "nil"
                 THEN [base EXCEPT !.pc = "done", !.err = Err("client", "nil Context")]
                 ELSE [base EXCEPT !.pc = "get", !.sent = <<NCRequest(x, ip)>>]]
    /\ UNCHANGED <<adapters, newLog>>

\* Update sending its request again after an error of the network (a
\* plausible slip)
ContinueRetrying(c, r) ==
    LET k == calls[c]
        x == adapters[k.adapter]
    IN calls' = [calls EXCEPT ![c] =
         CASE k.pc = "lookup" ->
                LET res == GetRecordIDResult(r)
                IN IF res.err # NilErr
                   THEN [k EXCEPT !.pc = "done", !.lookupSeen = Seen(r), !.lastResp = r,
                            !.newIP = NilIP, !.err = WrapGetRecordID(res.err)]
                   ELSE [k EXCEPT !.pc = "put", !.lookupSeen = Seen(r), !.lastResp = r,
                            !.recordID = res.recordID,
                            !.sent = Append(k.sent,
                                DOPutRequest(x, k.recordType, res.recordID, k.ip))]
           [] k.pc = "put" ->
                LET res == DOUpdateResult(k.ip, r)
                IN [k EXCEPT !.pc = "done", !.lastResp = r,
                       !.newIP = res.newIP, !.err = res.err]
           [] OTHER ->
                LET res == NCUpdateResult(k.ip, r)
                IN IF r.doErr = "network" /\ Len(k.sent) < 2
                   THEN [k EXCEPT !.lastResp = r, !.sent = Append(k.sent, NCRequest(x, k.ip))]
                   ELSE [k EXCEPT !.pc = "done", !.lastResp = r,
                            !.newIP = res.newIP, !.err = res.err]]

\* Update keying its mutation by an identifier another invocation resolved, as
\* if the identifier were kept on the adapter (a plausible slip)
ContinueSharedID(c, r) ==
    LET k == calls[c]
        x == adapters[k.adapter]
        others == { d \in CallIds \ {c} : calls[d].recordID # 0 }
    IN calls' = [calls EXCEPT ![c] =
         CASE k.pc = "lookup" ->
                LET res == GetRecordIDResult(r)
                    id == IF others # {} THEN calls[CHOOSE d \in others : TRUE].recordID
                          ELSE res.recordID
                IN IF res.err # NilErr
                   THEN [k EXCEPT !.pc = "done", !.lookupSeen = Seen(r), !.lastResp = r,
                            !.newIP = NilIP, !.err = WrapGetRecordID(res.err)]
                   ELSE [k EXCEPT !.pc = "put", !.lookupSeen = Seen(r), !.lastResp = r,
                            !.recordID = id,
                            !.sent = Append(k.sent, DOPutRequest(x, k.recordType, id, k.ip))]
           [] k.pc = "put" ->
                LET res == DOUpdateResult(k.ip, r)
                IN [k EXCEPT !.pc = "done", !.lastResp = r,
                       !.newIP = res.newIP, !.err = res.err]
           [] OTHER ->
                LET res == NCUpdateResult(k.ip, r)
                IN [k EXCEPT !.pc = "done", !.lastResp = r,
                       !.newIP = res.newIP, !.err = res.err]]

(***************************************************************************)
(* Update from the return r of a client.Do to the next client.Do or to its *)
(* own return.                                                             *)
(***************************************************************************)
Continue(c, r) ==
    LET k == calls[c]
        x == adapters[k.adapter]
    IN calls' = [calls EXCEPT ![c] =
         CASE k.pc = "lookup" ->
                LET res == GetRecordIDResult(r)
                IN IF res.err # NilErr
                   THEN [k EXCEPT !.pc = "done", !.lookupSeen = Seen(r), !.lastResp = r,
                            !.newIP = NilIP, !.err = WrapGetRecordID(res.err)]
                   ELSE [k EXCEPT !.pc = "put", !.lookupSeen = Seen(r), !.lastResp = r,
                            !.recordID = res.recordID,
                            !.sent = Append(k.sent,
                                DOPutRequest(x, k.recordType, res.recordID, k.ip))]
           [] k.pc = "put" ->
                LET res == DOUpdateResult(k.ip, r)
                IN [k EXCEPT !.pc = "done", !.lastResp = r,
                       !.newIP = res.newIP, !.err = res.err]
           [] OTHER ->
                LET res == NCUpdateResult(k.ip, r)
                IN [k EXCEPT !.pc = "done", !.lastResp = r,
                       !.newIP = res.newIP, !.err = res.err]]

\* the outcomes the vendor and the network can give the exchange in flight
OutcomesAt(c) ==
    CASE calls[c].pc = "lookup" -> Outcomes(LookupBodies)
      [] calls[c].pc = "put" -> Outcomes(PutBodies)
      [] OTHER -> Outcomes(XMLBodies)

\* client.Do returns a response, or an error of the network
DoRespond(c, r) ==
    /\ InFlight(c)
    /\ ~Aborted(c)
    /\ r \in OutcomesAt(c)
    /\ Continue(c, r)
    /\ UNCHANGED <<adapters, newLog>>

\* client.Do returns the error of the cancelled context
DoAbort(c) ==
    /\ Aborted(c)
    /\ Continue(c, ClientError("canceled"))
    /\ UNCHANGED <<adapters, newLog>>

\* the caller cancels the context of an Update in flight
Cancel(c) ==
    /\ InFlight(c)
    /\ calls[c].ctx = "live"
    /\ calls' = [calls EXCEPT ![c].ctx = "cancelled", ![c].cancelledAt = calls[c].pc]
    /\ UNCHANGED <<adapters, newLog>>

\* the caller has taken the result: the slot is free for the next invocation
Forget(c) ==
    /\ calls[c].pc = "done"
    /\ calls' = [calls EXCEPT ![c] = IdleCall]
    /\ UNCHANGED <<adapters, newLog>>

Contexts == {"nil", "live", "cancelled"}

(***************************************************************************)
(* Spec: a scheduler that builds adapters while no Update is running,      *)
(* starts no Update once a New has failed (it rejects the configuration)   *)
(* and runs one Update at a time, against any vendor.                      *)
(***************************************************************************)
NewAtRest(a, kind, data, t) ==
    /\ \A c \in CallIds : calls[c].pc = "idle"
    /\ New(a, kind, data, t)

StartAlone(c, a, ip, ctx) ==
    /\ \A d \in CallIds \ {c} : calls[d].pc = "idle"
    /\ \A b \in AdapterIds : newLog[b].err = NilErr
    /\ UpdateStart(c, a, ip, ctx)

Next ==
    \/ \E a \in AdapterIds, kind \in {"digitalocean", "namecheap"}, data \in Blobs,
          t \in Targets : NewAtRest(a, kind, data, t)
    \/ \E c \in CallIds, a \in AdapterIds, ip \in IPs, ctx \in Contexts :
          StartAlone(c, a, ip, ctx)
    \/ \E c \in CallIds : \E r \in OutcomesAt(c) : DoRespond(c, r)
    \/ \E c \in CallIds : DoAbort(c)
    \/ \E c \in CallIds : Cancel(c)
    \/ \E c \in CallIds : Forget(c)

Spec == Init /\ [][Next]_vars

\* the client returns once the context of its request is cancelled
LiveSpec == Spec /\ \A c \in CallIds : WF_vars(DoAbort(c))


(***************************************************************************)
(* IdemSpec: the same scheduler against a vendor stub that always answers  *)
(* 200: the lookup returns the one record 1, the mutation and the simple   *)
(* update report the address sent (the address of the connection when none *)
(* was sent, which is the caller's).  Results are kept, not forgotten.     *)
(***************************************************************************)
EchoOutcome(c) ==
    LET k == calls[c]
    IN CASE k.pc = "lookup" -> Response(StatusOK, [ok |-> TRUE, records |-> <<1>>])
         [] k.pc = "put" -> Response(StatusOK, [ok |-> TRUE, data |-> k.sent[2].body.data])
         [] OTHER -> Response(StatusOK,
                        [ok |-> TRUE, error |-> "",
                         ip |-> IF k.sent[1].query.hasIP THEN k.sent[1].query.ip
                                ELSE IPString(k.ip)])

DoEcho(c) == DoRespond(c, EchoOutcome(c))

StartNext(c, a, ip) ==
    /\ \A d \in CallIds \ {c} : calls[d].pc \in {"idle", "done"}
    /\ \A b \in AdapterIds : newLog[b].err = NilErr
    /\ UpdateStart(c, a, ip, "live")

IdemNext ==
    \/ \E a \in AdapterIds, kind \in {"digitalocean", "namecheap"}, data \in Blobs,
          t \in Targets : NewAtRest(a, kind, data, t)
    \/ \E c \in CallIds, a \in AdapterIds, ip \in IPs : StartNext(c, a, ip)
    \/ \E c \in CallIds : DoEcho(c)

IdemSpec == Init /\ [][IdemNext]_vars

(***************************************************************************)
(* ConcSpec: two-step adapters whose Updates the scheduler runs            *)
(* concurrently, on one adapter or on several.  The vendor answers every   *)
(* lookup 200 with a list of one record, whose identifier may differ from  *)
(* one lookup to the next, and every mutation with the address sent.       *)
(***************************************************************************)
ConcIPs == { [form |-> "b4", addr |-> 1], [form |-> "b16", addr |-> 1] }

ConcLookups ==
    { Response(StatusOK, [ok |-> TRUE, records |-> s]) : s \in [1..1 -> 0..MaxID] }

StartAny(c, a, ip) ==
    /\ \A b \in AdapterIds : newLog[b].err = NilErr
    /\ UpdateStart(c, a, ip, "live")

DoLookup(c, r) ==
    /\ calls[c].pc = "lookup"
    /\ DoRespond(c, r)

DoMutation(c) ==
    /\ calls[c].pc = "put"
    /\ DoEcho(c)

ConcNext ==
    \/ \E a \in AdapterIds, data \in Blobs, t \in Targets :
          NewAtRest(a, "digitalocean", data, t)
    \/ \E c \in CallIds, a \in AdapterIds, ip \in ConcIPs : StartAny(c, a, ip)
    \/ \E c \in CallIds : \E r \in ConcLookups : DoLookup(c, r)
    \/ \E c \in CallIds : DoMutation(c)
    \/ \E c \in CallIds : Forget(c)

ConcSpec == Init /\ [][ConcNext]_vars

(***************************************************************************)
(* Properties.                                                             *)
(***************************************************************************)
Done(c) == calls[c].pc = "done"

Started(c) == calls[c].pc # "idle"

AdapterOf(c) == adapters[calls[c].adapter]

IsDO(c) == Started(c) /\ AdapterOf(c).kind = "digitalocean"

IsNC(c) == Started(c) /\ AdapterOf(c).kind = "namecheap"

\* the address text the vendor's last response carries
Reported(c) ==
    IF IsDO(c) THEN DecodeData(calls[c].lastResp.body)
    ELSE DecodeXMLIP(calls[c].lastResp.body)

\* the last exchange passed every stage before the comparison of addresses
LastPassed(c) ==
    /\ calls[c].lastResp.doErr = "none"
    /\ calls[c].lastResp.status = StatusOK
    /\ calls[c].lastResp.body.ok
    /\ IsNC(c) => DecodeXMLError(calls[c].lastResp.body) = ""
    /\ ParseIP(Reported(c)) # NilIP

Methods(c) == [i \in 1..Len(calls[c].sent) |-> calls[c].sent[i].method]

LookupSucceeded(c) ==
    /\ calls[c].lookupSeen.doErr = "none"
    /\ calls[c].lookupSeen.status = StatusOK
    /\ calls[c].lookupSeen.ok
    /\ calls[c].lookupSeen.n > 0
    /\ calls[c].lookupSeen.first # 0

\* C1: an Update given a non-nil IP P (two-step adapter; simple adapter without
\* inference) that returns success returns an address equal to P, which is the
\* address the vendor's last response carries.
C1_VerifiedSuccess ==
    \A c \in CallIds :
        (/\ Done(c)
         /\ calls[c].err = NilErr
         /\ calls[c].ip # NilIP
         /\ IsDO(c) \/ ~AdapterOf(c).useProviderIP)
        => /\ IPEqual(calls[c].newIP, calls[c].ip)
           /\ LastPassed(c)
           /\ calls[c].newIP = ParseIP(Reported(c))

\* a two-step Update given the 4-byte form of an address has succeeded
C1_Witness ==
    \E c \in CallIds :
        Done(c) /\ IsDO(c) /\ calls[c].err = NilErr /\ calls[c].ip.form = "b4"

\* C2: when every earlier stage passes and the vendor reports a valid address
\* other than the requested one, Update fails with the mismatch error of the
\* shared taxonomy (ErrIPReceivedMismatch) and returns no IP, in both adapters.
C2_MismatchClassified ==
    \A c \in CallIds :
        (/\ Done(c)
         /\ calls[c].ip # NilIP
         /\ IsDO(c) => Len(calls[c].sent) = 2
         /\ LastPassed(c)
         /\ ~IPEqual(calls[c].ip, ParseIP(Reported(c))))
        => /\ calls[c].err.is = "ErrIPReceivedMismatch"
           /\ calls[c].newIP = NilIP

\* the secret a request carries passed the check of New
SecretValid(q) ==
    IF q.kind = "update" THEN NamecheapPassword(q.query.password) ELSE q.bearer # ""

\* C3: New makes no request; an adapter exists only with a secret that passed
\* validation; no request ever carries an empty token or a malformed password.
C3_ValidationGatesNetwork ==
    /\ [](/\ \A c \in CallIds : \A i \in 1..Len(calls[c].sent) : SecretValid(calls[c].sent[i])
          /\ \A a \in AdapterIds :
                /\ adapters[a].kind = "digitalocean" => adapters[a].token # ""
                /\ adapters[a].kind = "namecheap" => NamecheapPassword(adapters[a].password)
                /\ newLog[a].err # NilErr => adapters[a] = NoAdapter)
    /\ [][newLog' # newLog => calls' = calls]_vars

\* a New was refused for its secret, and no request was made
C3_Witness ==
    \E a \in AdapterIds :
        /\ newLog[a].called
        /\ newLog[a].err.is \in {"ErrEmptyToken", "ErrMalformedPassword"}
        /\ \A c \in CallIds : calls[c].sent = <<>>

\* the lookup of c returned status 200 and an empty record list
LookupEmpty(c) ==
    /\ calls[c].lookupSeen.doErr = "none"
    /\ calls[c].lookupSeen.status = StatusOK
    /\ calls[c].lookupSeen.ok
    /\ calls[c].lookupSeen.n = 0

\* C4: two-step adapter: a lookup answered 200 with an empty record list ends
\* the Update with ErrNotFound after exactly one request, a GET.
C4_NotFoundNoMutation ==
    \A c \in CallIds :
        (IsDO(c) /\ LookupEmpty(c))
        => /\ Done(c)
           /\ calls[c].err.is = "ErrNotFound"
           /\ calls[c].newIP = NilIP
           /\ Methods(c) = <<"GET">>

C4_Witness == \E c \in CallIds : IsDO(c) /\ LookupEmpty(c) /\ Done(c)

\* C5: two-step adapter: a PUT is only ever the second request, after the GET
\* of the same invocation returned without error, 200, decodable, with a
\* non-empty list and a non-zero first identifier; a failed lookup ends the
\* invocation with an error and without a PUT.
C5_LookupBeforeMutation ==
    \A c \in CallIds :
        IsDO(c) =>
            /\ \A i \in 1..Len(calls[c].sent) :
                  calls[c].sent[i].method = "PUT"
                  => /\ i = 2
                     /\ calls[c].sent[1].method = "GET"
                     /\ LookupSucceeded(c)
                     /\ calls[c].sent[i].id = calls[c].lookupSeen.first
            /\ (calls[c].lookupSeen # NoLookup /\ ~LookupSucceeded(c))
                  => /\ Done(c)
                     /\ calls[c].err # NilErr
                     /\ Methods(c) = <<"GET">>

\* a mutation is in flight after a successful lookup
C5_Witness ==
    \E c \in CallIds : calls[c].pc = "put" /\ Methods(c) = <<"GET", "PUT">>

\* the caller cancelled the context of c during an exchange or before the call
Cancelled(c) == calls[c].cancelledAt # ""

\* C6: every request is built with the caller's context; an Update whose
\* context is cancelled while an exchange is in flight returns, with an error
\* and no IP; cancelled during the lookup, it issues no mutation.
C6_Cancellation ==
    /\ [](\A c \in CallIds :
            /\ \A i \in 1..Len(calls[c].sent) : calls[c].sent[i].ctx = "caller"
            /\ (Done(c) /\ Cancelled(c)) => (calls[c].err # NilErr /\ calls[c].newIP = NilIP)
            /\ calls[c].cancelledAt = "lookup" => Methods(c) = <<"GET">>)
    /\ \A c \in CallIds : (InFlight(c) /\ Cancelled(c)) ~> Done(c)

\* an Update cancelled during its lookup has returned
C6_Witness ==
    \E c \in CallIds :
        Done(c) /\ calls[c].cancelledAt = "lookup" /\ calls[c].err.detail = "canceled"

\* C7: simple adapter with inference enabled: a response with status 200, no
\* vendor error and a parseable IP V makes Update succeed with V, whatever IP
\* the caller passed.
C7_InferenceSucceeds ==
    \A c \in CallIds :
        (Done(c) /\ IsNC(c) /\ AdapterOf(c).useProviderIP /\ LastPassed(c))
        => /\ calls[c].err = NilErr
           /\ calls[c].newIP = ParseIP(Reported(c))

\* C8: against the echoing vendor every Update given a non-nil IP P succeeds
\* with an address equal to P, and two Updates of one adapter given the same P
\* return the same result.
C8_Idempotent ==
    /\ \A c \in CallIds :
          (Done(c) /\ calls[c].ip # NilIP)
          => calls[c].err = NilErr /\ IPEqual(calls[c].newIP, calls[c].ip)
    /\ \A c, d \in CallIds :
          (/\ Done(c) /\ Done(d)
           /\ calls[c].adapter = calls[d].adapter
           /\ calls[c].ip = calls[d].ip)
          => calls[c].newIP = calls[d].newIP /\ calls[c].err = calls[d].err

\* two Updates of one adapter with the same 4-byte address have both returned
C8_Witness ==
    \E c, d \in CallIds :
        /\ c # d /\ Done(c) /\ Done(d)
        /\ calls[c].adapter = calls[d].adapter
        /\ calls[c].ip = calls[d].ip
        /\ calls[c].ip.form = "b4"

\* C9: the accessors of a built adapter return what New was given, and its
\* secret and inference flag are those of the blob, in every state: after
\* construction and after any Updates.
C9_ImmutableTarget ==
    \A a \in AdapterIds :
        adapters[a].kind # "none" =>
            /\ newLog[a].called /\ newLog[a].err = NilErr
            /\ adapters[a].kind = newLog[a].kind
            /\ Domain(adapters[a]) = newLog[a].domain
            /\ Host(adapters[a]) = newLog[a].host
            /\ IPVersion(adapters[a]) = newLog[a].ipVersion
            /\ adapters[a].kind = "digitalocean" => adapters[a].token = newLog[a].data.token
            /\ adapters[a].kind = "namecheap" =>
                  /\ adapters[a].password = newLog[a].data.password
                  /\ adapters[a].useProviderIP = newLog[a].data.provider_ip

\* an Update of a built adapter has failed at its mutation
C9_Witness ==
    \E c \in CallIds :
        Done(c) /\ Len(calls[c].sent) = 2 /\ calls[c].err.is = "ErrBadHTTPStatus"

\* C10: a completed Update returns either a non-nil IP and a nil error, or a
\* nil IP and a non-nil error.
C10_NoPartialOutcome ==
    \A c \in CallIds :
        Done(c) =>
            \/ calls[c].newIP # NilIP /\ calls[c].err = NilErr
            \/ calls[c].newIP = NilIP /\ calls[c].err # NilErr

\* a two-step Update has ended on a mismatch
C10_Witness ==
    \E c \in CallIds : Done(c) /\ IsDO(c) /\ calls[c].err.detail = "mismatch"


\* the secret json.Unmarshal reads from a blob: the zero value for a missing key
BlobToken(data) == IF "token" \in data.keys THEN data.token ELSE ""
BlobPassword(data) == IF "password" \in data.keys THEN data.password ELSE ""

ConstructionErrors == {"ErrIPv6NotSupported", "json", "ErrEmptyToken", "ErrMalformedPassword"}

\* C11: New fails, leaving no adapter, exactly when (1) the simple adapter is
\* asked for IPv6 (whatever the blob), (2) the blob does not parse, (3) the
\* secret fails the vendor check; the two-step adapter takes every IP version;
\* Update raises none of these errors.
C11_ConstructionFailures ==
    /\ \A a \in AdapterIds :
          newLog[a].called =>
            LET l == newLog[a]
                expected ==
                    IF l.kind = "namecheap"
                    THEN IF l.ipVersion = IP6 THEN "ErrIPv6NotSupported"
                         ELSE IF ~l.data.wellFormed THEN "json"
                         ELSE IF ~NamecheapPassword(BlobPassword(l.data))
                         THEN "ErrMalformedPassword"
                         ELSE "nil"
                    ELSE IF ~l.data.wellFormed THEN "json"
                         ELSE IF BlobToken(l.data) = "" THEN "ErrEmptyToken"
                         ELSE "nil"
            IN /\ l.err.is = expected
               /\ (expected = "nil") <=> (adapters[a].kind = l.kind)
               /\ (expected # "nil") <=> (adapters[a] = NoAdapter)
    /\ \A c \in CallIds : calls[c].err.is \notin ConstructionErrors

\* the simple adapter was asked for IPv6 with a blob that does not parse
C11_Witness ==
    \E a \in AdapterIds :
        /\ newLog[a].called /\ newLog[a].kind = "namecheap"
        /\ newLog[a].ipVersion = IP6 /\ ~newLog[a].data.wellFormed

\* the simple adapter's response has status 200 and a vendor error in its body
VendorErrorReported(c) ==
    /\ IsNC(c)
    /\ calls[c].lastResp.doErr = "none"
    /\ calls[c].lastResp.status = StatusOK
    /\ calls[c].lastResp.body.ok
    /\ DecodeXMLError(calls[c].lastResp.body) # ""

\* C12: simple adapter: a 200 response whose body has a non-empty error field
\* ends the Update with ErrUnsuccessfulResponse carrying the vendor's message,
\* whatever IP the body carries.
C12_VendorErrorFirst ==
    \A c \in CallIds :
        VendorErrorReported(c)
        => /\ Done(c)
           /\ calls[c].err.is = "ErrUnsuccessfulResponse"
           /\ calls[c].err.detail = DecodeXMLError(calls[c].lastResp.body)
           /\ calls[c].newIP = NilIP

\* the body carries a vendor error beside the very address that was requested
C12_Witness ==
    \E c \in CallIds :
        /\ VendorErrorReported(c)
        /\ calls[c].ip # NilIP
        /\ IPEqual(calls[c].ip, ParseIP(DecodeXMLIP(calls[c].lastResp.body)))

\* the lookup of c returned status 200 and a list whose first identifier is zero
LookupZeroID(c) ==
    /\ calls[c].lookupSeen.doErr = "none"
    /\ calls[c].lookupSeen.status = StatusOK
    /\ calls[c].lookupSeen.ok
    /\ calls[c].lookupSeen.n > 0
    /\ calls[c].lookupSeen.first = 0

\* C13: two-step adapter: a lookup answered 200 with a non-empty list whose
\* first identifier is zero ends the Update with ErrDomainIDNotFound, not
\* ErrNotFound, after the GET alone.
C13_RecordIDNotFound ==
    \A c \in CallIds :
        (IsDO(c) /\ LookupZeroID(c))
        => /\ Done(c)
           /\ calls[c].err.is = "ErrDomainIDNotFound"
           /\ calls[c].err.is # "ErrNotFound"
           /\ calls[c].newIP = NilIP
           /\ Methods(c) = <<"GET">>

C13_Witness == \E c \in CallIds : IsDO(c) /\ LookupZeroID(c) /\ calls[c].lookupSeen.n = 2

\* a status outside 200..299
NonSuccess(status) == status < 200 \/ status > 299

\* C14: a response with a non-success status, at any exchange, ends the Update
\* with ErrBadHTTPStatus carrying that status and nothing of the decoded body;
\* a bad status at the lookup leaves the GET the only request.
C14_BadStatusHardFailure ==
    \A c \in CallIds :
        /\ (Started(c) /\ calls[c].lastResp.doErr = "none" /\ NonSuccess(calls[c].lastResp.status))
           => /\ Done(c)
              /\ calls[c].newIP = NilIP
              /\ calls[c].err = [ErrStatus(calls[c].lastResp.status)
                                    EXCEPT !.prefix = calls[c].err.prefix]
        /\ (IsDO(c) /\ calls[c].lookupSeen.doErr = "none" /\ NonSuccess(calls[c].lookupSeen.status))
           => Done(c) /\ Methods(c) = <<"GET">>

\* a mutation was answered 500 with the body of a success
C14_Witness ==
    \E c \in CallIds :
        /\ Done(c) /\ Methods(c) = <<"GET", "PUT">>
        /\ calls[c].lastResp.status = 500 /\ calls[c].lastResp.body.ok


\* C15: an Update issues at most one request in the simple adapter and at most
\* two, a GET then a PUT, in the two-step adapter; the PUT is issued only once
\* the GET has returned, and only if it succeeded; an Update that has returned
\* an error has issued nothing after the failed exchange; a successful Update
\* has issued exactly one (simple) or two (two-step) requests.
C15_BoundedExchanges ==
    \A c \in CallIds :
        Started(c) =>
            /\ IsNC(c) => Methods(c) \in {<<>>, <<"GET">>}
            /\ IsDO(c) => Methods(c) \in {<<>>, <<"GET">>, <<"GET", "PUT">>}
            /\ InFlight(c) =>
                  Methods(c) = IF calls[c].pc = "put" THEN <<"GET", "PUT">> ELSE <<"GET">>
            /\ Len(calls[c].sent) = 2 => LookupSucceeded(c)
            /\ (Done(c) /\ Len(calls[c].sent) > 0) => calls[c].lastResp # NoResp
            /\ (Done(c) /\ calls[c].err = NilErr) =>
                  Methods(c) = IF IsDO(c) THEN <<"GET", "PUT">> ELSE <<"GET">>

\* a simple Update has failed on the network after its one request
C15_Witness ==
    \E c \in CallIds :
        Done(c) /\ IsNC(c) /\ calls[c].err.detail = "network" /\ Methods(c) = <<"GET">>

AdapterFields == {"kind", "domain", "host", "ipVersion", "token", "password", "useProviderIP"}

TextOf(ip) ==
    CASE ip.form = "nil" -> NilText
      [] ip.form = "b16" -> [kind |-> "v6", addr |-> ip.addr]
      [] OTHER -> [kind |-> "dotted", addr |-> ip.addr]

\* C17: two-step adapter: the record type is A exactly when the IP given to
\* Update is an IPv4 address (in 4 or in 16 bytes), AAAA otherwise, whatever the
\* adapter's IP version; the lookup filter and the mutation body carry that
\* type, and the body's data is the text of the IP.
C17_RecordTypeAndPayload ==
    \A c \in CallIds :
        IsDO(c) =>
            LET type == IF calls[c].ip.form \in {"b4", "b16m"} THEN "A" ELSE "AAAA"
            IN /\ calls[c].recordType = type
               /\ Len(calls[c].sent) >= 1 => calls[c].sent[1].type = type
               /\ Len(calls[c].sent) = 2 =>
                     /\ calls[c].sent[2].body.type = type
                     /\ calls[c].sent[2].body.data = TextOf(calls[c].ip)
                     /\ calls[c].sent[2].body.name = AdapterOf(c).host

\* an adapter built for IPv6 sends a mutation of type A for a 16-byte IPv4 address
C17_Witness ==
    \E c \in CallIds :
        /\ IsDO(c) /\ Len(calls[c].sent) = 2
        /\ AdapterOf(c).ipVersion = IP6
        /\ calls[c].ip.form = "b16m"

\* C18: the simple adapter's request carries the adapter's host, domain and
\* password, and the ip parameter exactly when inference is disabled, then with
\* the text of the IP given to Update.
C18_SimpleRequest ==
    \A c \in CallIds :
        (IsNC(c) /\ Len(calls[c].sent) >= 1) =>
            LET q == calls[c].sent[1].query
            IN /\ q.host = AdapterOf(c).host
               /\ q.domain = AdapterOf(c).domain
               /\ q.password = AdapterOf(c).password
               /\ q.hasIP <=> ~AdapterOf(c).useProviderIP
               /\ q.ip = IF AdapterOf(c).useProviderIP THEN NoText ELSE TextOf(calls[c].ip)

\* a request was sent without the ip parameter
C18_Witness ==
    \E c \in CallIds :
        IsNC(c) /\ Len(calls[c].sent) = 1 /\ ~calls[c].sent[1].query.hasIP

\* the lookup of c returned status 200 and more than one record
LookupSeveral(c) ==
    /\ calls[c].lookupSeen.doErr = "none"
    /\ calls[c].lookupSeen.status = StatusOK
    /\ calls[c].lookupSeen.ok
    /\ calls[c].lookupSeen.n > 1

\* C19: two-step adapter: of a lookup with several records the first decides:
\* a non-zero first identifier keys the mutation, whatever the others are; a
\* zero first identifier ends the Update with ErrDomainIDNotFound; no other
\* error is raised for the number of records.
C19_FirstRecordAuthoritative ==
    \A c \in CallIds :
        (IsDO(c) /\ LookupSeveral(c)) =>
            /\ calls[c].lookupSeen.first # 0
                  => /\ Methods(c) = <<"GET", "PUT">>
                     /\ calls[c].sent[2].id = calls[c].lookupSeen.first
                     /\ calls[c].pc = "put" =>
                           calls[c].sent[2].id = calls[c].lastResp.body.records[1]
            /\ calls[c].lookupSeen.first = 0
                  => Done(c) /\ calls[c].err.is = "ErrDomainIDNotFound"

\* the mutation is keyed by the first of two different identifiers
C19_Witness ==
    \E c \in CallIds :
        /\ IsDO(c) /\ LookupSeveral(c) /\ calls[c].pc = "put"
        /\ calls[c].lastResp.body.records[2] \notin {0, calls[c].lastResp.body.records[1]}

\* C20: a successful Update has seen status 200 on every response; a response
\* with any other status, 201 included, ends it with ErrBadHTTPStatus.
C20_Only200 ==
    \A c \in CallIds :
        /\ (Done(c) /\ calls[c].err = NilErr)
           => /\ calls[c].lastResp.doErr = "none" /\ calls[c].lastResp.status = StatusOK
              /\ IsDO(c) => (calls[c].lookupSeen.doErr = "none"
                             /\ calls[c].lookupSeen.status = StatusOK)
        /\ (Started(c) /\ calls[c].lastResp.doErr = "none"
              /\ calls[c].lastResp.status # StatusOK)
           => /\ Done(c)
              /\ calls[c].err.is = "ErrBadHTTPStatus"
              /\ calls[c].err.status = calls[c].lastResp.status

\* the simple adapter was answered 201 with the body of a success
C20_Witness ==
    \E c \in CallIds :
        /\ Done(c) /\ IsNC(c)
        /\ calls[c].lastResp.status = 201 /\ calls[c].lastResp.body.ok

====
